---- MODULE Spec2Model ----
(***************************************************************************)
(* Model of task-1.py: a three stage ETL script.                           *)
(*   Loader        : builds the DataFrame `data`            (lines 23-25)  *)
(*   Preprocessor  : preprocessor.fit_transform(data)       (line 54) and  *)
(*                   the DataFrame rebuild                  (lines 58-61)  *)
(*   Writer        : transformed_df.to_csv(...)             (line 67)      *)
(*                                                                         *)
(* The dataset is a parameter of the run: `source` ranges over small       *)
(* tables (possibly with missing entries, possibly lacking a configured    *)
(* column), so that the statements about "every input table" are checked   *)
(* on more than the one embedded sample.  The model carries two of the     *)
(* four numeric feature names; the numeric columns are processed           *)
(* independently of one another.                                           *)
(*                                                                         *)
(* Real numbers.  The scaler divides by a standard deviation, a square     *)
(* root.  A transformed cell is kept exactly as c * sqrt(n / d) in a       *)
(* record [c, n, d] of integers; all cells of one scaled column share n    *)
(* and d, so sums and sums of squares of a column are exact.               *)
(***************************************************************************)
EXTENDS Integers, Sequences, FiniteSets, TLC

VARIABLES
    source,            \* the static dataset the Loader reads
    file,              \* content of transformed_data.csv (NoFile: absent)
    pc,                \* position of the script
    data,              \* the loaded DataFrame (line 24)
    categories_,       \* fitted categories of the one-hot encoder
    transformed_data,  \* the array returned by fit_transform (line 54)
    transformed_df,    \* the rebuilt DataFrame (line 61)
    rerun,             \* FALSE in the first invocation, TRUE in the second
    stages,            \* history: the stages entered by this invocation
    errorAt,           \* history: the stage that raised ("" when none)
    fileAtStart,       \* history: the file when this invocation started
    firstOutput        \* history: the file written by the first invocation

vars == <<source, file, pc, data, categories_, transformed_data,
          transformed_df, rerun, stages, errorAt, fileAtStart, firstOutput>>

----------------------------------------------------------------------------
(* Bounds and value domains                                                *)

MaxRows == 2

(* np.nan, the marker of a missing entry: a value outside the domains.     *)
NaN == -1

(* An unbound Python name is <<>>, a bound one <<value>>.                  *)
None == <<>>

(* The file is [exists, lines]; a line is a sequence of text fields.       *)
NoFile == [exists |-> FALSE, lines |-> <<>>]

MaxCatRows == 4

MaxFairRows == 1

NumVals == {1, 2}
CatVals == {0, 1}
CatValsWide == {0, 1, 2}

----------------------------------------------------------------------------
(* Configuration (lines 32-33)                                             *)

numerical_features == <<"sepal length (cm)", "sepal width (cm)">>

categorical_features == <<"target">>

Range(s) == {s[i] : i \in DOMAIN s}

SumSeq(s) ==
    LET acc[i \in 0..Len(s)] == IF i = 0 THEN 0 ELSE acc[i - 1] + s[i]
    IN  acc[Len(s)]

(* The elements of a set of integers in ascending order.                   *)
SortedSeq(S) ==
    [k \in 1..Cardinality(S) |->
        CHOOSE x \in S : Cardinality({y \in S : y <= x}) = k]

----------------------------------------------------------------------------
(* Tables: [cols |-> sequence of column names,                             *)
(*          rows |-> sequence of rows, each a function column -> value]    *)

Present(x) == {i \in DOMAIN x : x[i] # NaN}

(* Rows over the columns `cols`: numeric cells from `nums`, categorical    *)
(* cells from `cats`, any other column holds 1.                            *)
RowsOver(cols, nums, cats) ==
    { r \in [Range(cols) -> nums \cup cats \cup {1}] :
        \A c \in Range(cols) :
            IF c \in Range(numerical_features) THEN r[c] \in nums
            ELSE IF c \in Range(categorical_features) THEN r[c] \in cats
            ELSE r[c] = 1 }

TablesOver(cols, nums, cats, maxRows) ==
    { [cols |-> cols, rows |-> rows] :
        rows \in UNION {[1..k -> RowsOver(cols, nums, cats)] : k \in 0..maxRows} }

FullCols == numerical_features \o categorical_features

Without(cols, c) == SelectSeq(cols, LAMBDA x : x # c)

(* Column layouts that differ from the configured lists only in order or   *)
(* by a column the configuration does not name.                            *)
OtherLayouts ==
    {categorical_features \o numerical_features, FullCols \o <<"species_id">>}

(* The datasets of Spec: every table in the configured layout, with or     *)
(* without missing entries; tables lacking one configured column; tables   *)
(* of the other layouts with complete numeric columns.                     *)
SourceTables ==
    TablesOver(FullCols, NumVals \cup {NaN}, CatVals \cup {NaN}, MaxRows)
    \cup UNION { TablesOver(Without(FullCols, c), NumVals \cup {NaN},
                            CatVals \cup {NaN}, MaxRows) : c \in Range(FullCols) }
    \cup UNION { TablesOver(cols, NumVals, CatVals \cup {NaN}, MaxRows) :
                 cols \in OtherLayouts }

(* The datasets of SpecCat: longer tables over more categories, the        *)
(* numeric cells fixed by the row's position.                              *)
CatTables ==
    { [cols |-> FullCols,
       rows |-> [i \in 1..Len(t) |->
                   [c \in Range(FullCols) |->
                      IF c \in Range(categorical_features) THEN t[i]
                      ELSE IF c = numerical_features[1] THEN 1 + (i % 2)
                      ELSE 1 + ((i \div 2) % 2)]]] :
        t \in UNION {[1..k -> CatValsWide \cup {NaN}] : k \in 0..MaxCatRows} }

(* A stale file left by something else: longer than any output of the run. *)
OldFile == [exists |-> TRUE, lines |-> [i \in 1..(MaxRows + MaxCatRows + MaxFairRows + 2) |-> <<"stale">>]]

----------------------------------------------------------------------------
(* Loader (lines 23-25): the DataFrame holds the dataset's columns and     *)
(* rows as they are.                                                       *)

DataFrame(cols, rows) == [columns |-> cols, rows |-> rows]

(* Variant: rows with a missing entry are dropped on load (dropna).        *)
LoadTableDropNa(src) ==
    DataFrame(src.cols,
              SelectSeq(src.rows, LAMBDA r : \A c \in DOMAIN r : r[c] # NaN))

LoadTable(src) == DataFrame(src.cols, src.rows)

DfColumn(df, c) == [i \in 1..Len(df.rows) |-> df.rows[i][c]]

----------------------------------------------------------------------------
(* Numeric chain (lines 36-39)                                             *)

Cell(c, n, d) == [c |-> c, n |-> n, d |-> d]

(* SimpleImputer(strategy='mean') on one column: the mean is taken over    *)
(* the present entries; a column with no present entry is dropped.  The    *)
(* imputed column is vals[i] / den.                                        *)
SimpleImputerMean(x) ==
    LET p  == Present(x)
        np == Cardinality(p)
        S  == SumSeq([i \in DOMAIN x |-> IF x[i] = NaN THEN 0 ELSE x[i]])
    IN  IF np = 0
        THEN [dropped |-> TRUE, vals |-> <<>>, den |-> 1]
        ELSE [dropped |-> FALSE,
              vals |-> [i \in DOMAIN x |-> IF x[i] = NaN THEN S ELSE x[i] * np],
              den |-> np]

(* Variant: the scaler divides by the sample (n - 1) standard deviation.   *)
StandardScalerSampleStd(col) ==
    LET n == Len(col.vals)
        A == SumSeq(col.vals)
        e == [i \in 1..n |-> n * col.vals[i] - A]
        Q == SumSeq([i \in 1..n |-> e[i] * e[i]])
    IN  [i \in 1..n |-> IF Q = 0 THEN Cell(0, 1, 1) ELSE Cell(e[i], n - 1, Q)]

(* StandardScaler() on one imputed column: z = (v - mean) / std with the   *)
(* population standard deviation; a zero deviation is replaced by 1.       *)
(* With e[i] = n*vals[i] - sum(vals) and Q = sum(e[i]^2):                  *)
(*    z[i] = e[i] * sqrt(n / Q)   (the common denominator cancels).        *)
StandardScaler(col) ==
    LET n == Len(col.vals)
        A == SumSeq(col.vals)
        e == [i \in 1..n |-> n * col.vals[i] - A]
        Q == SumSeq([i \in 1..n |-> e[i] * e[i]])
    IN  [i \in 1..n |-> IF Q = 0 THEN Cell(0, 1, 1) ELSE Cell(e[i], n, Q)]

(* The imputed columns that were not dropped, in order.                    *)
Kept(cols) ==
    LET idx == {j \in DOMAIN cols : ~cols[j].dropped}
    IN  [k \in 1..Cardinality(idx) |->
            cols[CHOOSE j \in idx : Cardinality({m \in idx : m <= j}) = k]]

(* The numeric pipeline on the selected columns: a sequence of output      *)
(* columns, the dropped ones left out; the scaler raises on no column.     *)
numerical_pipeline(X) ==
    LET imputed == [j \in DOMAIN X |-> SimpleImputerMean(X[j])]
        kept    == Kept(imputed)
    IN  IF kept = <<>>
        THEN [err |-> TRUE, cols |-> <<>>]
        ELSE [err |-> FALSE,
              cols |-> [j \in DOMAIN kept |-> StandardScaler(kept[j])]]

----------------------------------------------------------------------------
(* Categorical chain (lines 41-44)                                         *)

Count(x, v) == Cardinality({i \in DOMAIN x : x[i] = v})

(* Variant: the smallest present value, whatever its frequency.            *)
MostFrequentSmallest(x) ==
    LET vs == {x[i] : i \in Present(x)}
    IN  CHOOSE v \in vs : \A w \in vs : v <= w

(* The most frequent present value; of several, the smallest.              *)
MostFrequent(x) ==
    LET vs   == {x[i] : i \in Present(x)}
        best == {v \in vs : \A w \in vs : Count(x, w) <= Count(x, v)}
    IN  CHOOSE v \in best : \A w \in best : v <= w

SimpleImputerMostFrequent(x) ==
    IF Present(x) = {}
    THEN [dropped |-> TRUE, vals |-> <<>>]
    ELSE [dropped |-> FALSE,
          vals |-> [i \in DOMAIN x |-> IF x[i] = NaN THEN MostFrequent(x) ELSE x[i]]]

(* Variant: the first category is dropped (drop='first').                  *)
OneHotFitDropFirst(x) == Tail(SortedSeq(Range(x)))

(* OneHotEncoder.fit: the categories are the distinct values, ascending.   *)
OneHotFit(x) == SortedSeq(Range(x))

(* OneHotEncoder.transform of one value: one indicator per category;       *)
(* handle_unknown='ignore' gives all zeros for a value that was not seen.  *)
OneHotRow(cats, v) == [k \in DOMAIN cats |-> IF cats[k] = v THEN 1 ELSE 0]

(* The categorical pipeline on its single selected column.                 *)
categorical_pipeline(x) ==
    LET imputed == SimpleImputerMostFrequent(x)
    IN  IF imputed.dropped
        THEN [err |-> TRUE, cats |-> <<>>, rows |-> <<>>]
        ELSE LET cats == OneHotFit(imputed.vals)
             IN  [err |-> FALSE, cats |-> cats,
                  rows |-> [i \in DOMAIN x |-> OneHotRow(cats, imputed.vals[i])]]

(* get_feature_names_out (line 59)                                         *)
get_feature_names_out(cats, input_features) ==
    [k \in DOMAIN cats |-> input_features[1] \o "_" \o ToString(cats[k])]

----------------------------------------------------------------------------
(* ColumnTransformer.fit_transform (lines 47-54)                           *)

MissingColumns(df) ==
    {c \in Range(numerical_features) \cup Range(categorical_features) :
        c \notin Range(df.columns)}

(* The stacked result is a sparse matrix when one block is sparse (the     *)
(* one-hot block is) and the density is below sparse_threshold = 0.3; the  *)
(* dense numeric block counts as full, the one-hot block has one stored    *)
(* entry per row.                                                          *)
SparseStack(knum, kcat) == 10 * (knum + 1) < 3 * (knum + kcat)

fit_transform(df) ==
    IF MissingColumns(df) # {} \/ df.rows = <<>>
    THEN [err |-> TRUE, cats |-> <<>>, sparse |-> FALSE, rows |-> <<>>]
    ELSE
      LET num == numerical_pipeline(
                     [j \in DOMAIN numerical_features |->
                          DfColumn(df, numerical_features[j])])
          cat == categorical_pipeline(DfColumn(df, categorical_features[1]))
      IN  IF num.err \/ cat.err
          THEN [err |-> TRUE, cats |-> <<>>, sparse |-> FALSE, rows |-> <<>>]
          ELSE [err |-> FALSE,
                cats |-> cat.cats,
                sparse |-> SparseStack(Len(num.cols), Len(cat.cats)),
                rows |-> [i \in DOMAIN df.rows |->
                             [j \in DOMAIN num.cols |-> num.cols[j][i]]
                             \o [k \in DOMAIN cat.cats |->
                                    Cell(cat.rows[i][k], 1, 1)]]]

----------------------------------------------------------------------------
(* The DataFrame rebuild (lines 58-61)                                     *)

num_cols == numerical_features

cat_cols(cats) == get_feature_names_out(cats, categorical_features)

(* Variant: the labels are concatenated in the other order.                *)
all_cols_cat_first(cats) == cat_cols(cats) \o num_cols

all_cols(cats) == num_cols \o cat_cols(cats)

(* pd.DataFrame(array, columns=labels) raises when the array is a sparse   *)
(* matrix or when the number of labels is not its number of columns.       *)
RebuildFails(arr, labels) ==
    \/ arr.sparse
    \/ \E i \in DOMAIN arr.rows : Len(arr.rows[i]) # Len(labels)

----------------------------------------------------------------------------
(* Writer (line 67)                                                        *)

FormatFloat(cell) ==
    IF cell.c = 0 THEN "0.0"
    ELSE IF cell.n = cell.d THEN ToString(cell.c) \o ".0"
    ELSE ToString(cell.c) \o "*sqrt(" \o ToString(cell.n) \o "/"
             \o ToString(cell.d) \o ")"

(* Variant: to_csv with its default index=True.                            *)
to_csv_index(df) ==
    <<(<<"">> \o df.columns)>> \o
        [i \in DOMAIN df.rows |->
            <<ToString(i - 1)>> \o
                [j \in DOMAIN df.rows[i] |-> FormatFloat(df.rows[i][j])]]

(* to_csv(index=False): the header, then one line per row.                 *)
to_csv(df) ==
    <<df.columns>> \o
        [i \in DOMAIN df.rows |->
            [j \in DOMAIN df.rows[i] |-> FormatFloat(df.rows[i][j])]]

(* Variant: the path is opened for appending.                              *)
OpenForAppend(old, lines) == [exists |-> TRUE, lines |-> old.lines \o lines]

(* The path is opened for writing: what it held is gone.                   *)
OpenForWrite(old, lines) == [exists |-> TRUE, lines |-> lines]

Prefixes(lines) == {SubSeq(lines, 1, k) : k \in 0..(Len(lines) - 1)}

----------------------------------------------------------------------------
(* The script                                                              *)

Init ==
    /\ source \in SourceTables
    /\ file \in {NoFile, OldFile}
    /\ pc = "load"
    /\ data = None
    /\ categories_ = None
    /\ transformed_data = None
    /\ transformed_df = None
    /\ rerun = FALSE
    /\ stages = <<>>
    /\ errorAt = ""
    /\ fileAtStart = file
    /\ firstOutput = None

(* Lines 23-25 *)
Loader ==
    /\ pc = "load"
    /\ data' = <<LoadTable(source)>>
    /\ stages' = Append(stages, "Loader")
    /\ pc' = "transform"
    /\ UNCHANGED <<source, file, categories_, transformed_data, transformed_df,
                   rerun, errorAt, fileAtStart, firstOutput>>

(* Variant: an error of fit_transform is swallowed and the script goes on  *)
(* with an empty table.                                                    *)
PreprocessorSwallow ==
    /\ pc = "transform"
    /\ stages' = Append(stages, "Preprocessor")
    /\ \E r \in {fit_transform(data[1])} :
           /\ pc' = IF r.err THEN "write" ELSE "rebuild"
           /\ transformed_df' =
                 IF r.err THEN <<DataFrame(<<>>, <<>>)>> ELSE transformed_df
           /\ categories_' = IF r.err THEN categories_ ELSE <<r.cats>>
           /\ transformed_data' =
                 IF r.err THEN transformed_data
                 ELSE <<[sparse |-> r.sparse, rows |-> r.rows]>>
    /\ UNCHANGED <<source, file, data, errorAt, rerun, fileAtStart, firstOutput>>

(* Variant: a failed fit_transform is tried again.                         *)
PreprocessorRetry ==
    /\ pc = "transform"
    /\ stages' = Append(stages, "Preprocessor")
    /\ \E r \in {fit_transform(data[1])} :
           /\ pc' = IF r.err THEN "transform" ELSE "rebuild"
           /\ categories_' = IF r.err THEN categories_ ELSE <<r.cats>>
           /\ transformed_data' =
                 IF r.err THEN transformed_data
                 ELSE <<[sparse |-> r.sparse, rows |-> r.rows]>>
    /\ UNCHANGED <<source, file, data, transformed_df, errorAt, rerun,
                   fileAtStart, firstOutput>>

(* Variant: the missing entries of `data` are filled in place.             *)
PreprocessorInPlace ==
    /\ pc = "transform"
    /\ stages' = Append(stages, "Preprocessor")
    /\ data' = <<[data[1] EXCEPT !.rows =
                    [i \in DOMAIN @ |->
                        [c \in DOMAIN @[i] |->
                            IF @[i][c] = NaN THEN 0 ELSE @[i][c]]]]>>
    /\ \E r \in {fit_transform(data[1])} :
           /\ pc' = IF r.err THEN "error" ELSE "rebuild"
           /\ errorAt' = IF r.err THEN "Preprocessor" ELSE errorAt
           /\ categories_' = IF r.err THEN categories_ ELSE <<r.cats>>
           /\ transformed_data' =
                 IF r.err THEN transformed_data
                 ELSE <<[sparse |-> r.sparse, rows |-> r.rows]>>
    /\ UNCHANGED <<source, file, transformed_df, rerun, fileAtStart, firstOutput>>

(* Line 54 *)
Preprocessor ==
    /\ pc = "transform"
    /\ stages' = Append(stages, "Preprocessor")
    /\ \E r \in {fit_transform(data[1])} :
           /\ pc' = IF r.err THEN "error" ELSE "rebuild"
           /\ errorAt' = IF r.err THEN "Preprocessor" ELSE errorAt
           /\ categories_' = IF r.err THEN categories_ ELSE <<r.cats>>
           /\ transformed_data' =
                 IF r.err THEN transformed_data
                 ELSE <<[sparse |-> r.sparse, rows |-> r.rows]>>
    /\ UNCHANGED <<source, file, data, transformed_df, rerun, fileAtStart,
                   firstOutput>>

(* Lines 58-61 *)
Rebuild ==
    /\ pc = "rebuild"
    /\ LET labels == all_cols(categories_[1])
           fails  == RebuildFails(transformed_data[1], labels)
       IN  /\ pc' = IF fails THEN "error" ELSE "write"
           /\ errorAt' = IF fails THEN "Preprocessor" ELSE errorAt
           /\ transformed_df' =
                 IF fails THEN transformed_df
                 ELSE <<DataFrame(labels, transformed_data[1].rows)>>
    /\ UNCHANGED <<source, file, data, categories_, transformed_data, rerun,
                   stages, fileAtStart, firstOutput>>

(* Lines 67-68: the write completes and the success message is printed.    *)
Writer ==
    /\ pc = "write"
    /\ stages' = Append(stages, "Writer")
    /\ file' = OpenForWrite(file, to_csv(transformed_df[1]))
    /\ firstOutput' = IF rerun THEN firstOutput ELSE <<file'>>
    /\ pc' = "done"
    /\ UNCHANGED <<source, data, categories_, transformed_data, transformed_df,
                   rerun, errorAt, fileAtStart>>

(* Line 67 raising a file-system error: either the path could not be       *)
(* opened (the file stays as it was) or the write stopped part-way and     *)
(* left a truncated file.                                                  *)
WriterFails ==
    /\ pc = "write"
    /\ stages' = Append(stages, "Writer")
    /\ \/ file' = file
       \/ \E part \in Prefixes(to_csv(transformed_df[1])) :
              file' = OpenForWrite(file, part)
    /\ pc' = "error"
    /\ errorAt' = "Writer"
    /\ UNCHANGED <<source, data, categories_, transformed_data, transformed_df,
                   rerun, fileAtStart, firstOutput>>

(* After a successful run the script is invoked a second time on the same  *)
(* source: a new process, the file system as the first invocation left it. *)
Rerun ==
    /\ pc = "done"
    /\ ~rerun
    /\ rerun' = TRUE
    /\ pc' = "load"
    /\ data' = None
    /\ categories_' = None
    /\ transformed_data' = None
    /\ transformed_df' = None
    /\ stages' = <<>>
    /\ errorAt' = ""
    /\ fileAtStart' = file
    /\ UNCHANGED <<source, file, firstOutput>>

Step == Loader \/ Preprocessor \/ Rebuild \/ Writer \/ WriterFails

Next == Step \/ Rerun

Spec == Init /\ [][Next]_vars

InitCat ==
    /\ source \in CatTables
    /\ file \in {NoFile, OldFile}
    /\ pc = "load"
    /\ data = None
    /\ categories_ = None
    /\ transformed_data = None
    /\ transformed_df = None
    /\ rerun = FALSE
    /\ stages = <<>>
    /\ errorAt = ""
    /\ fileAtStart = file
    /\ firstOutput = None

SpecCat == InitCat /\ [][Next]_vars

(* The datasets of FairSpec: short tables, complete or with a missing      *)
(* entry or lacking a column, enough to take every branch of the script.   *)
FairTables ==
    TablesOver(FullCols, {1, NaN}, {0, NaN}, MaxFairRows)
    \cup UNION { TablesOver(Without(FullCols, c), {1, NaN}, {0, NaN}, MaxFairRows) :
                 c \in Range(FullCols) }

InitFair ==
    /\ source \in FairTables
    /\ file \in {NoFile, OldFile}
    /\ pc = "load"
    /\ data = None
    /\ categories_ = None
    /\ transformed_data = None
    /\ transformed_df = None
    /\ rerun = FALSE
    /\ stages = <<>>
    /\ errorAt = ""
    /\ fileAtStart = file
    /\ firstOutput = None

(* The script runs to completion: a step of the run that is possible is    *)
(* taken.  Whether the script is invoked again is up to the user.          *)
FairSpec == InitFair /\ [][Next]_vars /\ WF_vars(Step)

----------------------------------------------------------------------------
(* Properties                                                              *)

NNum == Len(numerical_features)

HasMissing(x) == \E i \in DOMAIN x : x[i] = NaN

SourceColumn(c) == [i \in 1..Len(source.rows) |-> source.rows[i][c]]

SourceComplete == MissingColumns(LoadTable(source)) = {}

(* The numerator of the variance of a scaled column x (cells sharing n and *)
(* d) over R rows is (R*sum(c^2) - sum(c)^2) * n, its denominator R^2 * d. *)
ColCells(df, j) == [i \in 1..Len(df.rows) |-> df.rows[i][j]]

SumC(x) == SumSeq([i \in DOMAIN x |-> x[i].c])

SumC2(x) == SumSeq([i \in DOMAIN x |-> x[i].c * x[i].c])

MeanIsZero(x) == SumC(x) = 0

VarianceIsOne(x) ==
    LET R == Len(x)
    IN  /\ \A i \in DOMAIN x : x[i].n = x[1].n /\ x[i].d = x[1].d
        /\ (R * SumC2(x) - SumC(x) * SumC(x)) * x[1].n = R * R * x[1].d

VarianceIsZero(x) == Len(x) * SumC2(x) = SumC(x) * SumC(x)

(* C1: the loaded table, the array returned by fit_transform, the rebuilt  *)
(* table and the data lines of the written file all have as many rows as   *)
(* the dataset, and the rows keep their order: where two rows hold present *)
(* values x[i] < x[j] in a numeric column, the outputs compare the same    *)
(* way, and row i's indicators are those of row i's present category.      *)
C1_RowCountPreserved ==
    /\ data # None => Len(data[1].rows) = Len(source.rows)
    /\ transformed_data # None =>
           Len(transformed_data[1].rows) = Len(source.rows)
    /\ transformed_df # None =>
         LET df == transformed_df[1]
         IN  /\ Len(df.rows) = Len(source.rows)
             /\ \A j \in 1..NNum : \A i1, i2 \in 1..Len(source.rows) :
                  LET x == SourceColumn(numerical_features[j])
                  IN  (x[i1] # NaN /\ x[i2] # NaN /\ x[i1] < x[i2])
                          => df.rows[i1][j].c < df.rows[i2][j].c
             /\ \A i \in 1..Len(source.rows) : \A k \in DOMAIN categories_[1] :
                  LET v == source.rows[i][categorical_features[1]]
                  IN  v # NaN =>
                        (df.rows[i][NNum + k].c = 1 <=> categories_[1][k] = v)
    /\ pc = "done" => Len(file.lines) = 1 + Len(source.rows)

C1_Witness ==
    /\ pc = "done"
    /\ Len(source.rows) >= 2
    /\ \E j \in 1..NNum :
          LET x == SourceColumn(numerical_features[j])
          IN  x[1] # NaN /\ x[2] # NaN /\ x[1] > x[2]
    /\ \E j \in 1..NNum : HasMissing(SourceColumn(numerical_features[j]))

(* C2: when a configured column is absent from the dataset, the run never  *)
(* gets past the Preprocessor: once that stage has been entered the run is *)
(* in the error state, the error was raised there, the Writer is not       *)
(* entered, and the file is as it was when the run started (not created if *)
(* absent, not overwritten if present).                                    *)
C2_MissingColumnNoOutput ==
    ~SourceComplete =>
        /\ pc \in {"load", "transform", "error"}
        /\ pc = "error" => errorAt = "Preprocessor"
        /\ "Preprocessor" \in Range(stages) => pc = "error"
        /\ "Writer" \notin Range(stages)
        /\ transformed_df = None
        /\ file = fileAtStart

C2_Witness ==
    /\ ~SourceComplete
    /\ pc = "error"
    /\ Len(source.rows) >= 1
    /\ ~file.exists

(* C10: from the Loader on, through fit_transform, the rebuild and to_csv, *)
(* `data` holds the dataset's columns, rows and values (missing entries    *)
(* included) exactly as loaded.                                            *)
C10_LoadedTableUnchanged ==
    data # None =>
        /\ data[1].columns = source.cols
        /\ data[1].rows = source.rows

C10_Witness ==
    /\ pc = "done"
    /\ \E c \in Range(source.cols) : HasMissing(SourceColumn(c))
    /\ transformed_df[1].columns # data[1].columns

(* C3: once the table is rebuilt, there are as many indicator columns (and *)
(* indicator labels) as distinct present values of the categorical column, *)
(* every row has exactly one indicator equal to 1 and the others equal to  *)
(* 0, and for a row with a present value the 1 is under that value.        *)
C3_OneHot ==
    transformed_df # None =>
        LET df   == transformed_df[1]
            x    == SourceColumn(categorical_features[1])
            cats == categories_[1]
            K    == Len(df.columns) - NNum
        IN  /\ K = Cardinality({x[i] : i \in Present(x)})
            /\ Len(cats) = K
            /\ \A i \in DOMAIN df.rows :
                 /\ Len(df.rows[i]) = NNum + K
                 /\ \A k \in 1..K : df.rows[i][NNum + k] \in {Cell(0, 1, 1), Cell(1, 1, 1)}
                 /\ Cardinality({k \in 1..K : df.rows[i][NNum + k] = Cell(1, 1, 1)}) = 1
                 /\ x[i] # NaN =>
                      \E k \in 1..K : cats[k] = x[i] /\ df.rows[i][NNum + k].c = 1

C3_Witness ==
    /\ pc = "done"
    /\ Cardinality(Range(categories_[1])) = 3
    /\ Len(source.rows) >= Len(categories_[1]) + 1

(* C9: when the categorical column has missing entries and a present one,  *)
(* each row with a missing entry gets its single 1 under a present value   *)
(* that no other present value outnumbers, and the missing marker is no    *)
(* category: it has no indicator column and no label.                      *)
C9_MostFrequentImputed ==
    LET x == SourceColumn(categorical_features[1])
    IN  (transformed_df # None /\ HasMissing(x) /\ Present(x) # {}) =>
          LET df   == transformed_df[1]
              cats == categories_[1]
          IN  /\ NaN \notin Range(cats)
              /\ Len(df.columns) = NNum + Len(cats)
              /\ \A i \in DOMAIN x : x[i] = NaN =>
                   \E k \in DOMAIN cats :
                      /\ df.rows[i][NNum + k].c = 1
                      /\ \A k2 \in DOMAIN cats : k2 # k => df.rows[i][NNum + k2].c = 0
                      /\ \E i2 \in Present(x) : x[i2] = cats[k]
                      /\ \A w \in {x[i2] : i2 \in Present(x)} :
                            Count(x, w) <= Count(x, cats[k])

(* A most frequent value that is neither the smallest nor the first.       *)
C9_Witness ==
    LET x == SourceColumn(categorical_features[1])
    IN  /\ pc = "done"
        /\ Len(x) = 4
        /\ x[1] = NaN /\ x[2] = 0 /\ x[3] = 2 /\ x[4] = 2

(* C4: the rebuilt table's labels are the numeric feature names in the     *)
(* configured order followed by one indicator label per distinct present   *)
(* category; every row has as many cells as there are labels; the column   *)
(* under a numeric label is the scaled, imputed column of that name, and   *)
(* the 1s under an indicator label are in the rows holding the category    *)
(* the label names; the header line of the written file is these labels.   *)
C4_ColumnOrder ==
    transformed_df # None =>
        LET df == transformed_df[1]
            x  == SourceColumn(categorical_features[1])
            vs == {x[i] : i \in Present(x)}
            K  == Len(df.columns) - NNum
            LabelOf(v) == categorical_features[1] \o "_" \o ToString(v)
        IN  /\ SubSeq(df.columns, 1, NNum) = numerical_features
            /\ K = Cardinality(vs)
            /\ {df.columns[NNum + k] : k \in 1..K} = {LabelOf(v) : v \in vs}
            /\ \A i \in DOMAIN df.rows : Len(df.rows[i]) = Len(df.columns)
            /\ \A j \in 1..NNum :
                 ColCells(df, j) =
                     StandardScaler(SimpleImputerMean(
                         SourceColumn(numerical_features[j])))
            /\ \A i \in DOMAIN df.rows : \A k \in 1..K :
                 x[i] # NaN =>
                    (df.rows[i][NNum + k].c = 1
                         <=> df.columns[NNum + k] = LabelOf(x[i]))
            /\ pc = "done" => file.lines[1] = df.columns

C4_Witness ==
    /\ pc = "done"
    /\ source.cols[1] = categorical_features[1]
    /\ Len(transformed_df[1].columns) = NNum + 2
    /\ \E i \in DOMAIN source.rows :
          source.rows[i][numerical_features[1]] # source.rows[i][numerical_features[2]]

NoMissing ==
    \A c \in Range(FullCols) : ~HasMissing(SourceColumn(c))

(* C5: on a dataset with no missing entry, the second run ends with the    *)
(* file holding exactly what the first run wrote.                          *)
C5_Deterministic ==
    (rerun /\ pc = "done" /\ NoMissing) => file = firstOutput[1]

C5_Witness ==
    /\ rerun /\ pc = "done" /\ NoMissing
    /\ Len(source.rows) >= 2
    /\ fileAtStart = firstOutput[1]

DistinctPresent(x) == {x[i] : i \in Present(x)}

C7_FileContent ==
    pc = "done" =>
        LET df == transformed_df[1]
        IN  /\ file.exists
            /\ Len(file.lines) = 1 + Len(df.rows)
            /\ file.lines[1] = df.columns
            /\ \A i \in DOMAIN df.rows :
                 /\ Len(file.lines[i + 1]) = Len(df.columns)
                 /\ \A j \in DOMAIN df.columns :
                      file.lines[i + 1][j] = FormatFloat(df.rows[i][j])
            /\ \A l \in DOMAIN file.lines : file.lines[l] # <<"stale">>

C7_Witness ==
    /\ pc = "done"
    /\ ~rerun
    /\ fileAtStart = OldFile
    /\ Len(transformed_df[1].rows) >= 2

StageOrder == <<"Loader", "Preprocessor", "Writer">>

Rank(p) ==
    CASE p = "load" -> 0
      [] p = "transform" -> 1
      [] p = "rebuild" -> 2
      [] p = "write" -> 3
      [] OTHER -> 4

Terminal == pc \in {"done", "error"}

C8_State ==
    /\ pc \in {"load", "transform", "rebuild", "write", "done", "error"}
    /\ Len(stages) <= Len(StageOrder)
    /\ stages = SubSeq(StageOrder, 1, Len(stages))
    /\ pc = "done" => stages = StageOrder /\ errorAt = ""
    /\ pc = "error" => errorAt \in {"Preprocessor", "Writer"}
    /\ ~Terminal => errorAt = ""

(* A step of a run moves the script strictly forward; the only step out of *)
(* a terminal state starts the second invocation, and only after success.  *)
C8_Step ==
    \/ rerun' # rerun /\ pc = "done" /\ pc' = "load"
    \/ rerun' = rerun /\ ~Terminal /\ Rank(pc') > Rank(pc)

(* C8: in every run the stages entered form a prefix of Loader,            *)
(* Preprocessor, Writer (each at most once, in that order); success is     *)
(* reached only with all three entered and no error; every step of a run   *)
(* moves the script strictly forward and no step leaves a terminal state   *)
(* within the run (nothing is retried); and every run that has started     *)
(* eventually reaches "done" or "error".                                   *)
C8_SequentialRun ==
    /\ []C8_State
    /\ [][C8_Step]_vars
    /\ [](pc = "load" => <>Terminal)

C8_Witness ==
    /\ rerun
    /\ pc = "error"
    /\ errorAt = "Writer"
    /\ stages = StageOrder

====
